---------------------------- MODULE Spec2Model ----------------------------
(***************************************************************************)
(* A model of the text segmentation of src-cli (src/src/text_utils.rs):    *)
(* split_text, the quote scanner, and process_segment, the per-span        *)
(* tokenizer and merger.                                                   *)
(*                                                                         *)
(* A character is its Unicode code point, a string is a sequence of code   *)
(* points, and a token list is a sequence of strings.  split_text is run   *)
(* one loop iteration per step, and so is the word loop of                 *)
(* process_segment.                                                        *)
(***************************************************************************)
EXTENDS Integers, Sequences, FiniteSets, TLC

(***************************************************************************)
(* Characters                                                              *)
(***************************************************************************)
\* ' and " , the two characters of the match arm at text_utils.rs:18
Apostrophe == 39
DoubleQuote == 34
\* - , the connector of text_utils.rs:89
Hyphen == 45
\* the merged punctuation marks of text_utils.rs:78:  . , ! ?  and the
\* ideographic full stop, ideographic comma, fullwidth ! and fullwidth ?
PunctuationMarks == {46, 44, 33, 63, 12290, 12289, 65281, 65311}

\* char::is_whitespace, on the characters the model uses
\* (space, tab, line feed, carriage return, ideographic space)
IsWhitespace(c) == c \in {32, 9, 10, 13, 12288}

\* A..Z and a..z
IsAsciiLetter(c) == (c >= 65 /\ c <= 90) \/ (c >= 97 /\ c <= 122)

\* 0..9
IsAsciiDigit(c) == c >= 48 /\ c <= 57

\* faulty variant of IsCjk: the kana range is forgotten
IsCjkMutNoKana(c) == c >= 19968 /\ c <= 40959

\* the two ranges of text_utils.rs:56-57: U+4E00..U+9FFF and U+3040..U+30FF
IsCjk(c) == (c >= 19968 /\ c <= 40959) \/ (c >= 12352 /\ c <= 12543)

\* char::is_alphabetic, on the characters the model uses: the ASCII letters,
\* the CJK unified ideographs, the hiragana letters (U+3041..U+3096) and the
\* katakana letters (U+30A1..U+30FA)
IsAlphabetic(c) ==
    \/ IsAsciiLetter(c)
    \/ (c >= 19968 /\ c <= 40959)
    \/ (c >= 12353 /\ c <= 12438)
    \/ (c >= 12449 /\ c <= 12538)

\* char::is_alphanumeric
IsAlphanumeric(c) == IsAlphabetic(c) \/ IsAsciiDigit(c)

(***************************************************************************)
(* Strings                                                                 *)
(***************************************************************************)
\* s.chars().any(p) for the predicates used
AnyAlphanumeric(s) == \E i \in 1..Len(s) : IsAlphanumeric(s[i])

\* s.trim().is_empty(): s is empty or holds whitespace only
TrimIsEmpty(s) == \A i \in 1..Len(s) : IsWhitespace(s[i])

(***************************************************************************)
(* split_word_bounds (unicode-segmentation, UAX #29 word boundaries), on   *)
(* the word-break classes of the characters the model uses.                *)
(***************************************************************************)
WordBreak(c) ==
    CASE IsAsciiLetter(c) -> "ALetter"
      [] IsAsciiDigit(c) -> "Numeric"
      [] c = Apostrophe -> "Single_Quote"
      [] c = DoubleQuote -> "Double_Quote"
      [] c = 46 -> "MidNumLet"
      [] c = 44 -> "MidNum"
      [] c = 58 -> "MidLetter"
      [] c = 32 \/ c = 12288 -> "WSegSpace"
      [] c = 10 \/ c = 13 -> "Newline"
      [] c >= 12449 /\ c <= 12538 -> "Katakana"
      [] OTHER -> "Other"

\* WB3d..WB13: no word boundary between s[i] and s[i+1]
NoBreakAfter(s, i) ==
    LET a == WordBreak(s[i])
        b == WordBreak(s[i + 1])
        before == IF i > 1 THEN WordBreak(s[i - 1]) ELSE "sot"
        after == IF i + 2 <= Len(s) THEN WordBreak(s[i + 2]) ELSE "eot"
        MidLetterQ == {"MidLetter", "MidNumLet", "Single_Quote"}
        MidNumQ == {"MidNum", "MidNumLet", "Single_Quote"}
    IN  \/ a = "WSegSpace" /\ b = "WSegSpace"
        \/ a = "ALetter" /\ b = "ALetter"
        \/ a = "ALetter" /\ b \in MidLetterQ /\ after = "ALetter"
        \/ before = "ALetter" /\ a \in MidLetterQ /\ b = "ALetter"
        \/ a = "Numeric" /\ b = "Numeric"
        \/ a = "ALetter" /\ b = "Numeric"
        \/ a = "Numeric" /\ b = "ALetter"
        \/ before = "Numeric" /\ a \in MidNumQ /\ b = "Numeric"
        \/ a = "Numeric" /\ b \in MidNumQ /\ after = "Numeric"
        \/ a = "Katakana" /\ b = "Katakana"

\* the boundary units of s from position from on, the current unit starting
\* at position start
RECURSIVE WordBoundsFrom(_, _, _)
WordBoundsFrom(s, start, i) ==
    IF i > Len(s) THEN <<>>
    ELSE IF i = Len(s) THEN << SubSeq(s, start, i) >>
    ELSE IF NoBreakAfter(s, i) THEN WordBoundsFrom(s, start, i + 1)
    ELSE << SubSeq(s, start, i) >> \o WordBoundsFrom(s, i + 1, i + 1)

SplitWordBounds(s) == WordBoundsFrom(s, 1, 1)

(***************************************************************************)
(* JIEBA.cut(segment, true): the third-party segmentation.  Its result is  *)
(* not decided by this repository: any cut of the segment into non-empty   *)
(* pieces that cover it exactly, in order.                                 *)
(***************************************************************************)
RECURSIVE Cuts(_)
Cuts(s) ==
    IF s = <<>> THEN { <<>> }
    ELSE UNION { { << SubSeq(s, 1, k) >> \o rest : rest \in Cuts(SubSeq(s, k + 1, Len(s))) }
                 : k \in 1..Len(s) }

(***************************************************************************)
(* Inputs                                                                  *)
(***************************************************************************)
\* the longest input over Alphabet, and the longest over QuoteAlphabet
MaxLen == 4
MaxQuotedLen == 5

\* a 1 space ' " . , - # and the ideograph U+4E2D, the ideographic full stop
Alphabet == {97, 49, 32, 39, 34, 46, 44, 45, 35, 20013, 12290}

\* a space ' " . : enough for quoted phrases with whitespace inside
QuoteAlphabet == {97, 32, 39, 34, 46}

StringsOver(chars, n) == UNION { [1..k -> chars] : k \in 0..n }

\* the inputs of the tests of text_utils.rs and of the examples of the
\* specification
MissingQuoteHere ==
    <<77, 105, 115, 115, 105, 110, 103, 32, 34, 113, 117, 111, 116, 101, 32,
      104, 101, 114, 101>>
HelloWorldDone ==
    <<72, 101, 108, 108, 111, 44, 32, 119, 111, 114, 108, 100, 45, 116, 101,
      115, 116, 46, 32, 68, 111, 110, 101, 33>>
HelloWorldQuotedDone ==
    <<72, 101, 108, 108, 111, 44, 32, 119, 111, 114, 108, 100, 45, 116, 101,
      115, 116, 46, 32, 34, 68, 111, 110, 101, 33, 34>>
ThisTimeItsDifferent ==
    <<84, 104, 101, 114, 101, 39, 115, 32, 115, 111, 109, 101, 32, 99, 114,
      101, 100, 105, 98, 105, 108, 105, 116, 121, 32, 116, 111, 32, 39, 116,
      104, 105, 115, 32, 116, 105, 109, 101, 32, 105, 116, 39, 115, 32, 100,
      105, 102, 102, 101, 114, 101, 110, 116, 39>>
ThatIsTheResult ==
    <<84, 104, 97, 116, 32, 105, 115, 32, 45, 32, 116, 104, 101, 32, 114,
      101, 115, 117, 108, 116>>
\* hiragana U+306E and the ideographic full stop; katakana U+30C7 in quotes
\* with a Latin word
KanaInputs ==
    { <<12398, 12290>>, <<97, 12398>>, <<34, 97, 32, 12487, 12290, 34>> }

Examples ==
    { MissingQuoteHere, HelloWorldDone, HelloWorldQuotedDone,
      ThisTimeItsDifferent, ThatIsTheResult } \cup KanaInputs

Inputs ==
    StringsOver(Alphabet, MaxLen) \cup StringsOver(QuoteAlphabet, MaxQuotedLen)
        \cup Examples

(***************************************************************************)
(* State                                                                   *)
(***************************************************************************)
VARIABLES
    text,             \* the argument of split_text
    pos,              \* chars: the index of the character chars.next() yields
    current_segment,  \* the buffer of the span being scanned
    in_quotes,        \* the quote flag
    words,            \* the tokens returned so far
    pc,               \* "scan", "cjk", "latin", "extend" or "done"
    ret,              \* where process_segment's caller goes on: "scan" or "done"
    segment,          \* the argument of process_segment
    has_cjk,          \* process_segment's has_cjk
    tokens,           \* the boundary units (or the cut) of segment
    ti,               \* tokens: the index of the unit tokens.next() yields
    result,           \* process_segment's result
    open_at,          \* history: the index of the quote that opened quote mode (0: none)
    cause,            \* history: what flushed segment: "open", "close", "space", "eof"
    spans,            \* history: the segments handed to process_segment, each
                      \* with the index of its last character in text
    args,             \* merge_config_with_args: the parsed command line (Args)
    supplied,         \* history: the fields the user gave on the command line
    config,           \* the result of load_config
    merge_pc,         \* "idle", "start", "ok" or "err"
    word_i,           \* the timing loop: the index i of the word being timed
    current_time,     \* the timing loop: current_time, in milliseconds
    last_relax_time,  \* the timing loop: last_relax_time, in milliseconds
    total_duration,   \* the timing loop: total_duration, in milliseconds
    filters,          \* the timing loop: start_time and end_time of each word
    timing_pc         \* "idle", "loop" or "done"

vars ==
    << text, pos, current_segment, in_quotes, words, pc, ret, segment,
       has_cjk, tokens, ti, result, open_at, cause, spans,
       args, supplied, config, merge_pc,
       word_i, current_time, last_relax_time, total_duration, filters,
       timing_pc >>

scanner == << text, pos, current_segment, in_quotes, open_at >>
callee == << segment, has_cjk, tokens, ti, result, ret, cause, spans >>
config_side == << args, supplied, config, merge_pc >>
timing_side ==
    << word_i, current_time, last_relax_time, total_duration, filters,
       timing_pc >>
glue == << config_side, timing_side >>

(***************************************************************************)
(* Args and Config.  An Option is a sequence: << >> is None, << v >> is     *)
(* Some(v).  Durations are in milliseconds.                                 *)
(***************************************************************************)
\* the defaults merge_config_with_args compares the arguments with
DefaultWpm == 300
DefaultTextColor == "white"
DefaultBgColor == "black"
DefaultSecondaryColor == "#1a1911"
DEFAULT_REST_DURATION == 500
DefaultFocusLines == TRUE

\* the fields merged by value, and the fields merged as options
ScalarFields ==
    { "wpm", "text_color", "bg_color", "secondary_color", "rest_duration",
      "focus_lines" }
OptionFields == { "bgm_location", "font_location", "overwrite_output_file" }

\* the arguments of a command line that supplies nothing
DefaultArgs ==
    [ wpm |-> DefaultWpm,
      text_color |-> DefaultTextColor,
      bg_color |-> DefaultBgColor,
      secondary_color |-> DefaultSecondaryColor,
      rest_duration |-> DEFAULT_REST_DURATION,
      focus_lines |-> DefaultFocusLines,
      bgm_location |-> <<>>,
      font_location |-> <<>>,
      overwrite_output_file |-> <<>> ]

\* Config::default(), what load_config returns when there is no file
NoConfig ==
    [ ok |-> TRUE,
      wpm |-> <<>>,
      text_color |-> <<>>,
      bg_color |-> <<>>,
      secondary_color |-> <<>>,
      rest_duration |-> <<>>,
      focus_lines |-> <<>>,
      bgm_location |-> <<>>,
      font_location |-> <<>>,
      overwrite_output_file |-> <<>> ]

\* merge_config_with_args is not running
ConfigIdle ==
    /\ args = DefaultArgs
    /\ supplied = << >>
    /\ config = NoConfig
    /\ merge_pc = "idle"

\* the timing loop is not running
TimingIdle ==
    /\ word_i = 0
    /\ current_time = 0
    /\ last_relax_time = 0
    /\ total_duration = 0
    /\ filters = <<>>
    /\ timing_pc = "idle"

Init ==
    /\ text \in Inputs
    /\ pos = 1
    /\ current_segment = <<>>
    /\ in_quotes = FALSE
    /\ words = <<>>
    /\ pc = "scan"
    /\ ret = "scan"
    /\ segment = <<>>
    /\ has_cjk = FALSE
    /\ tokens = <<>>
    /\ ti = 1
    /\ result = <<>>
    /\ open_at = 0
    /\ cause = "none"
    /\ spans = <<>>
    /\ ConfigIdle
    /\ TimingIdle

(***************************************************************************)
(* split_text                                                              *)
(***************************************************************************)
\* the match arm '\'' | '"'
IsQuoteChar(c) == c = Apostrophe \/ c = DoubleQuote

\* faulty variant of IsContraction: the double quote is tested instead of
\* the apostrophe
IsContractionMutWrongQuote(c, seg, t, p) ==
    /\ c = DoubleQuote
    /\ seg # <<>>
    /\ p < Len(t)
    /\ IsAlphabetic(t[p + 1])

\* faulty variant of IsContraction: no contraction while quote mode is open
IsContractionMutNotInQuotes(c, seg, t, p) ==
    /\ c = Apostrophe
    /\ seg # <<>>
    /\ p < Len(t)
    /\ IsAlphabetic(t[p + 1])
    /\ ~in_quotes

\* is_contraction: c is an apostrophe, the buffer is not empty and the next
\* character (chars.peek(), the one after position p of t) is alphabetic
IsContraction(c, seg, t, p) ==
    /\ c = Apostrophe
    /\ seg # <<>>
    /\ p < Len(t)
    /\ IsAlphabetic(t[p + 1])

\* faulty variant of SplitsAtWhitespace: the quote flag is not read
SplitsAtWhitespaceMutInQuotes(c, inq) == IsWhitespace(c)

\* the guard of the whitespace arm
SplitsAtWhitespace(c, inq) == IsWhitespace(c) /\ ~inq

\* faulty variant of BufferAfterBoundary: an opening quote starts the buffer
BufferAfterBoundaryMutKeep(c, inq) == IF inq THEN <<>> ELSE <<c>>

\* the buffer after a quote boundary: the quote character is not kept
BufferAfterBoundary(c, inq) == <<>>

\* faulty variant of HasCjk: the kana range is forgotten
HasCjkMutNoKana(seg) == \E i \in 1..Len(seg) : IsCjkMutNoKana(seg[i])

\* has_cjk
HasCjk(seg) == \E i \in 1..Len(seg) : IsCjk(seg[i])

\* the units process_segment works on: a cut of the segment when it has a
\* CJK character, its word-boundary units otherwise
UnitsOf(seg) == IF HasCjk(seg) THEN Cuts(seg) ELSE { SplitWordBounds(seg) }

\* faulty variant of NewResult: process_segment goes on with the tokens
\* returned so far
NewResultMutShared == words

\* let mut result = Vec::new()
NewResult == <<>>

\* the call process_segment(seg), returning to r
Call(seg, r, why) ==
    /\ segment' = seg
    /\ has_cjk' = HasCjk(seg)
    /\ tokens' \in UnitsOf(seg)
    /\ ti' = 1
    /\ result' = NewResult
    /\ pc' = IF HasCjk(seg) THEN "cjk" ELSE "latin"
    /\ ret' = r
    /\ cause' = why
    /\ spans' = Append(spans, [ seg |-> seg, last |-> pos - 1 ])

AtChar == pc = "scan" /\ pos <= Len(text)

\* an apostrophe inside a word: kept in the buffer
ScanContraction ==
    /\ AtChar
    /\ IsQuoteChar(text[pos])
    /\ IsContraction(text[pos], current_segment, text, pos)
    /\ current_segment' = Append(current_segment, text[pos])
    /\ pos' = pos + 1
    /\ UNCHANGED << text, in_quotes, words, pc, open_at >>
    /\ UNCHANGED callee
    /\ UNCHANGED glue

\* a quote boundary with a buffer to flush
ScanQuoteFlush ==
    /\ AtChar
    /\ IsQuoteChar(text[pos])
    /\ ~IsContraction(text[pos], current_segment, text, pos)
    /\ current_segment # <<>>
    /\ Call(current_segment, "scan", IF in_quotes THEN "close" ELSE "open")
    /\ current_segment' = BufferAfterBoundary(text[pos], in_quotes)
    /\ in_quotes' = ~in_quotes
    /\ open_at' = IF in_quotes THEN open_at ELSE pos
    /\ pos' = pos + 1
    /\ UNCHANGED << text, words >>
    /\ UNCHANGED glue

\* a quote boundary with an empty buffer
ScanQuoteFlip ==
    /\ AtChar
    /\ IsQuoteChar(text[pos])
    /\ ~IsContraction(text[pos], current_segment, text, pos)
    /\ current_segment = <<>>
    /\ current_segment' = BufferAfterBoundary(text[pos], in_quotes)
    /\ in_quotes' = ~in_quotes
    /\ open_at' = IF in_quotes THEN open_at ELSE pos
    /\ pos' = pos + 1
    /\ UNCHANGED << text, words, pc >>
    /\ UNCHANGED callee
    /\ UNCHANGED glue

\* whitespace outside quotes with a buffer to flush
ScanSpaceFlush ==
    /\ AtChar
    /\ ~IsQuoteChar(text[pos])
    /\ SplitsAtWhitespace(text[pos], in_quotes)
    /\ current_segment # <<>>
    /\ Call(current_segment, "scan", "space")
    /\ current_segment' = <<>>
    /\ pos' = pos + 1
    /\ UNCHANGED << text, in_quotes, words, open_at >>
    /\ UNCHANGED glue

\* whitespace outside quotes with an empty buffer
ScanSpaceSkip ==
    /\ AtChar
    /\ ~IsQuoteChar(text[pos])
    /\ SplitsAtWhitespace(text[pos], in_quotes)
    /\ current_segment = <<>>
    /\ pos' = pos + 1
    /\ UNCHANGED << text, current_segment, in_quotes, words, pc, open_at >>
    /\ UNCHANGED callee
    /\ UNCHANGED glue

\* any other character
ScanPush ==
    /\ AtChar
    /\ ~IsQuoteChar(text[pos])
    /\ ~SplitsAtWhitespace(text[pos], in_quotes)
    /\ current_segment' = Append(current_segment, text[pos])
    /\ pos' = pos + 1
    /\ UNCHANGED << text, in_quotes, words, pc, open_at >>
    /\ UNCHANGED callee
    /\ UNCHANGED glue

\* the end of the input with a buffer left
EndFlush ==
    /\ pc = "scan"
    /\ pos > Len(text)
    /\ current_segment # <<>>
    /\ Call(current_segment, "done", "eof")
    /\ UNCHANGED << words >>
    /\ UNCHANGED scanner
    /\ UNCHANGED glue

\* the end of the input with an empty buffer
EndReturn ==
    /\ pc = "scan"
    /\ pos > Len(text)
    /\ current_segment = <<>>
    /\ pc' = "done"
    /\ UNCHANGED << words >>
    /\ UNCHANGED scanner
    /\ UNCHANGED callee
    /\ UNCHANGED glue

(***************************************************************************)
(* process_segment                                                         *)
(***************************************************************************)
\* faulty variant of CjkKeep: no filter
CjkKeepMutAll(units) == units

\* the filter of the CJK branch
CjkKeep(units) == SelectSeq(units, LAMBDA u : ~TrimIsEmpty(u))

\* is_punctuation
IsPunctuation(token) == Len(token) = 1 /\ token[1] \in PunctuationMarks

\* the guard of the reattachment
Reattaches(token, res) == IsPunctuation(token) /\ res # <<>>

\* faulty variant of Fuses: result is not tested before result.pop()
FusesMutNoResult(token, res, units, i) ==
    /\ token = << Hyphen >>
    /\ i < Len(units)
    /\ ~TrimIsEmpty(units[i + 1])

\* the guard of the hyphen merge; i is the index of token in units
Fuses(token, res, units, i) ==
    /\ token = << Hyphen >>
    /\ res # <<>>
    /\ i < Len(units)
    /\ ~TrimIsEmpty(units[i + 1])

\* faulty variant of Keeps: every unit is pushed
KeepsMutAll(token) == TRUE

\* the guard of the push
Keeps(token) == AnyAlphanumeric(token)

\* faulty variant of PushStr: the mark becomes a token of its own
PushStrMutNewToken(res, token) == Append(res, token)

\* last_word.push_str(token)
PushStr(res, token) == [res EXCEPT ![Len(res)] = @ \o token]

\* faulty variant of Hyphenated: the next unit is consumed but not appended
HyphenatedMutDropNext(res, next) == [res EXCEPT ![Len(res)] = @ \o << Hyphen >>]

\* pop, push '-', push the next unit, push back
Hyphenated(res, next) == [res EXCEPT ![Len(res)] = @ \o << Hyphen >> \o next]

\* the CJK branch: the cut, its blank pieces dropped
CjkCollect ==
    /\ pc = "cjk"
    /\ result' = CjkKeep(tokens)
    /\ ti' = Len(tokens) + 1
    /\ pc' = "extend"
    /\ UNCHANGED << words, segment, has_cjk, tokens, ret, cause, spans >>
    /\ UNCHANGED scanner
    /\ UNCHANGED glue

AtToken == pc = "latin" /\ ti <= Len(tokens)

\* 1. a whitespace unit
SkipWhitespace ==
    /\ AtToken
    /\ TrimIsEmpty(tokens[ti])
    /\ ti' = ti + 1
    /\ UNCHANGED << words, pc, segment, has_cjk, tokens, result, ret, cause, spans >>
    /\ UNCHANGED scanner
    /\ UNCHANGED glue

\* 2. a punctuation mark after a word of this segment
ReattachPunctuation ==
    /\ AtToken
    /\ ~TrimIsEmpty(tokens[ti])
    /\ Reattaches(tokens[ti], result)
    /\ result' = PushStr(result, tokens[ti])
    /\ ti' = ti + 1
    /\ UNCHANGED << words, pc, segment, has_cjk, tokens, ret, cause, spans >>
    /\ UNCHANGED scanner
    /\ UNCHANGED glue

\* 3. a hyphen between a word of this segment and a next unit
MergeHyphen ==
    /\ AtToken
    /\ ~TrimIsEmpty(tokens[ti])
    /\ ~Reattaches(tokens[ti], result)
    /\ Fuses(tokens[ti], result, tokens, ti)
    /\ result' = Hyphenated(result, tokens[ti + 1])
    /\ ti' = ti + 2
    /\ UNCHANGED << words, pc, segment, has_cjk, tokens, ret, cause, spans >>
    /\ UNCHANGED scanner
    /\ UNCHANGED glue

\* 4. a unit with an alphanumeric character
PushToken ==
    /\ AtToken
    /\ ~TrimIsEmpty(tokens[ti])
    /\ ~Reattaches(tokens[ti], result)
    /\ ~Fuses(tokens[ti], result, tokens, ti)
    /\ Keeps(tokens[ti])
    /\ result' = Append(result, tokens[ti])
    /\ ti' = ti + 1
    /\ UNCHANGED << words, pc, segment, has_cjk, tokens, ret, cause, spans >>
    /\ UNCHANGED scanner
    /\ UNCHANGED glue

\* 4. a unit without one
DropToken ==
    /\ AtToken
    /\ ~TrimIsEmpty(tokens[ti])
    /\ ~Reattaches(tokens[ti], result)
    /\ ~Fuses(tokens[ti], result, tokens, ti)
    /\ ~Keeps(tokens[ti])
    /\ ti' = ti + 1
    /\ UNCHANGED << words, pc, segment, has_cjk, tokens, result, ret, cause, spans >>
    /\ UNCHANGED scanner
    /\ UNCHANGED glue

\* the end of the word loop
LoopEnd ==
    /\ pc = "latin"
    /\ ti > Len(tokens)
    /\ pc' = "extend"
    /\ UNCHANGED << words >>
    /\ UNCHANGED scanner
    /\ UNCHANGED callee
    /\ UNCHANGED glue

\* words.extend(process_segment(..))
Extend ==
    /\ pc = "extend"
    /\ words' = words \o result
    /\ pc' = ret
    /\ UNCHANGED scanner
    /\ UNCHANGED callee
    /\ UNCHANGED glue

(***************************************************************************)
(* merge_config_with_args                                                  *)
(***************************************************************************)
\* split_text is not running
SplitIdle ==
    /\ text = <<>>
    /\ pos = 1
    /\ current_segment = <<>>
    /\ in_quotes = FALSE
    /\ ret = "scan"
    /\ segment = <<>>
    /\ has_cjk = FALSE
    /\ tokens = <<>>
    /\ ti = 1
    /\ result = <<>>
    /\ open_at = 0
    /\ cause = "none"
    /\ spans = <<>>

split_side == << scanner, callee, words, pc >>

\* the values a command line can give: the default of each field and one
\* other value
ArgsSpace ==
    [ wpm : { DefaultWpm, 250 },
      text_color : { DefaultTextColor, "red" },
      bg_color : { DefaultBgColor, "blue" },
      secondary_color : { DefaultSecondaryColor, "gray" },
      rest_duration : { DEFAULT_REST_DURATION, 100 },
      focus_lines : BOOLEAN,
      bgm_location : { <<>>, << "a.webm" >> },
      font_location : { <<>>, << "a.ttf" >> },
      overwrite_output_file : { <<>>, << TRUE >> } ]

\* load_config failed
Unreadable == [ NoConfig EXCEPT !.ok = FALSE ]

\* a config file that sets every field
FullConfig ==
    [ ok |-> TRUE,
      wpm |-> << 400 >>,
      text_color |-> << "yellow" >>,
      bg_color |-> << "navy" >>,
      secondary_color |-> << "silver" >>,
      rest_duration |-> << 1000 >>,
      focus_lines |-> << FALSE >>,
      bgm_location |-> << "c.webm" >>,
      font_location |-> << "c.ttf" >>,
      overwrite_output_file |-> << FALSE >> ]

\* a config file that sets the scalar fields to the defaults
DefaultsConfig ==
    [ NoConfig EXCEPT !.wpm = << DefaultWpm >>,
                      !.text_color = << DefaultTextColor >>,
                      !.bg_color = << DefaultBgColor >>,
                      !.secondary_color = << DefaultSecondaryColor >>,
                      !.rest_duration = << DEFAULT_REST_DURATION >>,
                      !.focus_lines = << DefaultFocusLines >> ]

\* a config file that sets wpm only
WpmOnlyConfig == [ NoConfig EXCEPT !.wpm = << 400 >> ]

ConfigFiles == { Unreadable, NoConfig, FullConfig, DefaultsConfig, WpmOnlyConfig }

\* the command line is parsed: a field the user did not supply holds its
\* default; supplied records what the user typed
InitConfig ==
    /\ \E typed \in ArgsSpace, given \in SUBSET ScalarFields :
          /\ supplied = [ f \in given |-> typed[f] ]
          /\ args = [ f \in ScalarFields \cup OptionFields |->
                        IF f \in ScalarFields \ given
                        THEN DefaultArgs[f] ELSE typed[f] ]
    /\ config \in ConfigFiles
    /\ merge_pc = "start"
    /\ SplitIdle
    /\ words = <<>>
    /\ pc = "idle"
    /\ TimingIdle

\* merge_scalar
MergeScalar(target, default, source) ==
    IF target = default /\ source # <<>> THEN source[1] ELSE target

\* (args.rest_duration - DEFAULT_REST_DURATION).abs() < f64::EPSILON: of the
\* durations in whole milliseconds only the default itself
IsDefaultRestDuration(d) == d = DEFAULT_REST_DURATION

\* Option::or
OptionOr(a, b) == IF a # <<>> THEN a ELSE b

\* merge_config_with_args when load_config succeeds; config is kept as
\* loaded, for the record
MergeConfigWithArgs ==
    /\ merge_pc = "start"
    /\ config.ok
    /\ args' =
          [ wpm |-> MergeScalar(args.wpm, DefaultWpm, config.wpm),
            text_color |->
                MergeScalar(args.text_color, DefaultTextColor, config.text_color),
            bg_color |->
                MergeScalar(args.bg_color, DefaultBgColor, config.bg_color),
            secondary_color |->
                MergeScalar(args.secondary_color, DefaultSecondaryColor,
                            config.secondary_color),
            rest_duration |->
                IF /\ IsDefaultRestDuration(args.rest_duration)
                   /\ config.rest_duration # <<>>
                THEN config.rest_duration[1]
                ELSE args.rest_duration,
            focus_lines |->
                IF args.focus_lines /\ config.focus_lines # <<>>
                THEN config.focus_lines[1]
                ELSE args.focus_lines,
            bgm_location |-> OptionOr(args.bgm_location, config.bgm_location),
            font_location |-> OptionOr(args.font_location, config.font_location),
            overwrite_output_file |->
                OptionOr(args.overwrite_output_file, config.overwrite_output_file) ]
    /\ merge_pc' = "ok"
    /\ UNCHANGED << supplied, config >>
    /\ UNCHANGED split_side
    /\ UNCHANGED timing_side

\* merge_config_with_args when load_config fails: the error is returned
MergeConfigFails ==
    /\ merge_pc = "start"
    /\ ~config.ok
    /\ merge_pc' = "err"
    /\ UNCHANGED << args, supplied, config >>
    /\ UNCHANGED split_side
    /\ UNCHANGED timing_side

NextConfig ==
    \/ MergeConfigWithArgs
    \/ MergeConfigFails

SpecConfig == InitConfig /\ [][NextConfig]_vars

(***************************************************************************)
(* The word-timing loop of main (and of generate_video)                    *)
(***************************************************************************)
\* the longest word list timed
MaxWords == 4

\* 60.0 seconds, in milliseconds
RelaxEvery == 60000

\* the words split_text can return that the loop tells apart
TimedWords == { << 97 >>, << 97, 46 >>, << 97, 33 >>, << 97, 63 >> }

\* the lists of at most n words
RECURSIVE WordLists(_)
WordLists(n) ==
    IF n = 0 THEN { <<>> }
    ELSE LET shorter == WordLists(n - 1)
         IN  shorter \cup { Append(ws, w) : ws \in shorter, w \in TimedWords }

\* the reading speeds and rest durations tried
TimingWpm == { 1, 2, DefaultWpm }
TimingRestDurations == { 100, DEFAULT_REST_DURATION }

\* 60.0 / args.wpm as f64, in milliseconds
SecondsPerWord == RelaxEvery \div args.wpm

\* word.ends_with('.') || word.ends_with('!') || word.ends_with('?')
EndsSentence(word) == word # <<>> /\ word[Len(word)] \in {46, 33, 63}

\* the state before the loop: words is what split_text returned
InitTiming ==
    /\ words \in WordLists(MaxWords)
    /\ pc = "done"
    /\ SplitIdle
    /\ \E w \in TimingWpm, r \in TimingRestDurations :
          args = [ DefaultArgs EXCEPT !.wpm = w, !.rest_duration = r ]
    /\ supplied = << >>
    /\ config = NoConfig
    /\ merge_pc = "idle"
    /\ word_i = 0
    /\ current_time = 0
    /\ last_relax_time = 0
    /\ total_duration = SecondsPerWord * Len(words)
    /\ filters = <<>>
    /\ timing_pc = "loop"

\* the loop is at word i (counted from 0)
AtWord == timing_pc = "loop" /\ word_i < Len(words)

\* the condition of the rest
Relaxes ==
    /\ word_i > 0
    /\ \/ last_relax_time > current_time + RelaxEvery
       \/ EndsSentence(words[word_i + 1])

\* the rest of the iteration, with relax_time as given
TimeWord(relax_time) ==
    /\ filters' = Append(filters,
                         [ start_time |-> current_time,
                           end_time |-> current_time + SecondsPerWord + relax_time ])
    /\ current_time' = current_time + SecondsPerWord + relax_time
    /\ word_i' = word_i + 1
    /\ UNCHANGED timing_pc
    /\ UNCHANGED split_side
    /\ UNCHANGED config_side

\* an iteration that gives the word a rest
TimeWordWithRest ==
    /\ AtWord
    /\ Relaxes
    /\ total_duration' = total_duration + args.rest_duration
    /\ last_relax_time' = current_time
    /\ TimeWord(args.rest_duration)

\* an iteration that gives the word no rest
TimeWordWithoutRest ==
    /\ AtWord
    /\ ~Relaxes
    /\ UNCHANGED << total_duration, last_relax_time >>
    /\ TimeWord(0)

\* the loop ends
TimingLoopEnd ==
    /\ timing_pc = "loop"
    /\ word_i = Len(words)
    /\ timing_pc' = "done"
    /\ UNCHANGED << word_i, current_time, last_relax_time, total_duration, filters >>
    /\ UNCHANGED split_side
    /\ UNCHANGED config_side

NextTiming ==
    \/ TimeWordWithRest
    \/ TimeWordWithoutRest
    \/ TimingLoopEnd

SpecTiming == InitTiming /\ [][NextTiming]_vars

Next ==
    \/ ScanContraction
    \/ ScanQuoteFlush
    \/ ScanQuoteFlip
    \/ ScanSpaceFlush
    \/ ScanSpaceSkip
    \/ ScanPush
    \/ EndFlush
    \/ EndReturn
    \/ CjkCollect
    \/ SkipWhitespace
    \/ ReattachPunctuation
    \/ MergeHyphen
    \/ PushToken
    \/ DropToken
    \/ LoopEnd
    \/ Extend

Spec == Init /\ [][Next]_vars

(***************************************************************************)
(* Expected token lists of the tests and examples                          *)
(***************************************************************************)
\* Missing
TokMissing == <<77, 105, 115, 115, 105, 110, 103>>
\* "quote here
TokQuoteHereWithQuote == <<34, 113, 117, 111, 116, 101, 32, 104, 101, 114, 101>>
\* quote , here
TokQuote == <<113, 117, 111, 116, 101>>
TokHere == <<104, 101, 114, 101>>
\* Hello,  world-test.  Done!
TokHelloComma == <<72, 101, 108, 108, 111, 44>>
TokWorldTestDot == <<119, 111, 114, 108, 100, 45, 116, 101, 115, 116, 46>>
TokDoneBang == <<68, 111, 110, 101, 33>>
\* There's some credibility to this time it's different
TokTheres == <<84, 104, 101, 114, 101, 39, 115>>
TokSome == <<115, 111, 109, 101>>
TokCredibility == <<99, 114, 101, 100, 105, 98, 105, 108, 105, 116, 121>>
TokTo == <<116, 111>>
TokThis == <<116, 104, 105, 115>>
TokTime == <<116, 105, 109, 101>>
TokIts == <<105, 116, 39, 115>>
TokDifferent == <<100, 105, 102, 102, 101, 114, 101, 110, 116>>
\* That is the result
TokThat == <<84, 104, 97, 116>>
TokIs == <<105, 115>>
TokThe == <<116, 104, 101>>
TokResult == <<114, 101, 115, 117, 108, 116>>

\* the concatenation of a list of strings
RECURSIVE Concat(_)
Concat(ss) == IF ss = <<>> THEN <<>> ELSE Head(ss) \o Concat(Tail(ss))

\* whether string s holds character c
Holds(s, c) == \E i \in 1..Len(s) : s[i] = c

\* split_text has returned
Done == pc = "done"

\* process_segment is about to return result for segment
Returning == pc = "extend"

\* process_segment is running or returning
InCall == pc \in {"cjk", "latin", "extend"}

(***************************************************************************)
(* C1                                                                      *)
(***************************************************************************)
\* C1: no token of the list split_text builds is empty or holds whitespace
\* only, whatever the cut of a CJK segment is.
C1_NoBlankToken == \A i \in 1..Len(words) : ~TrimIsEmpty(words[i])

\* a CJK segment whose cut had a blank piece has been returned with tokens
C1_Witness ==
    /\ Done
    /\ has_cjk
    /\ \E i \in 1..Len(tokens) : TrimIsEmpty(tokens[i])
    /\ words # <<>>

LetterApostrophes(s) ==
    Cardinality({ i \in 2..(Len(s) - 1) :
                    /\ s[i] = Apostrophe
                    /\ IsAsciiLetter(s[i - 1])
                    /\ IsAsciiLetter(s[i + 1]) })

RECURSIVE SumLetterApostrophes(_)
SumLetterApostrophes(ss) ==
    IF ss = <<>> THEN 0
    ELSE LetterApostrophes(Head(ss)) + SumLetterApostrophes(Tail(ss))

\* the scanner is at an apostrophe, its buffer is not empty and the next
\* character is alphabetic
C4_AtContraction ==
    /\ pc = "scan"
    /\ pos < Len(text)
    /\ text[pos] = Apostrophe
    /\ current_segment # <<>>
    /\ IsAlphabetic(text[pos + 1])

\* the apostrophe is appended, the quote flag is kept, nothing is flushed
C4_Step ==
    C4_AtContraction =>
        /\ current_segment' = Append(current_segment, Apostrophe)
        /\ in_quotes' = in_quotes
        /\ words' = words
        /\ pc' = "scan"
        /\ pos' = pos + 1

\* the apostrophes of s that stand after a letter or digit
WordApostrophes(s) ==
    Cardinality({ i \in 2..Len(s) : s[i] = Apostrophe /\ IsAlphanumeric(s[i - 1]) })

RECURSIVE SumWordApostrophes(_)
SumWordApostrophes(ss) ==
    IF ss = <<>> THEN 0
    ELSE WordApostrophes(Head(ss)) + SumWordApostrophes(Tail(ss))

\* C4 as stated, its last clause: the word keeps its apostrophe in the
\* output, for every apostrophe the scanner kept in the buffer after a
\* letter or digit of a segment without CJK characters.
C4_EveryKeptApostropheIsOutput ==
    (Returning /\ ~has_cjk) =>
        SumWordApostrophes(result) = WordApostrophes(segment)

\* in a segment without CJK characters every apostrophe between two letters
\* is between the same two letters inside one token of the result; and the
\* test's input gives the test's eight tokens
C4_Output ==
    /\ (Returning /\ ~has_cjk) =>
          SumLetterApostrophes(result) = LetterApostrophes(segment)
    /\ (Done /\ text = ThisTimeItsDifferent) =>
          words = << TokTheres, TokSome, TokCredibility, TokTo, TokThis,
                     TokTime, TokIts, TokDifferent >>

\* C4 as amended: whenever the scanner meets an apostrophe while the buffer
\* is not empty and the next character is alphabetic, the apostrophe is
\* appended to the buffer, the quote flag is not flipped and no segment is
\* flushed; when the apostrophe then stands between two Latin letters
\* (Word_Break class ALetter) of a segment without CJK characters, the word
\* keeps it in the output; and the input of test_single_quote gives exactly
\* the eight tokens of the test.
C4_ContractionKept == [][C4_Step]_vars /\ []C4_Output

\* a word with an apostrophe between two letters has been returned whole
C4_Witness ==
    /\ Returning
    /\ ~has_cjk
    /\ LetterApostrophes(segment) >= 1
    /\ \E i \in 1..Len(result) : LetterApostrophes(result[i]) >= 1

(***************************************************************************)
(* C5                                                                      *)
(***************************************************************************)
\* every apostrophe of s has a character before it and, when it is not the
\* last character of s, an alphabetic character after it
C5_ApostrophesInside(s) ==
    \A i \in 1..Len(s) :
        s[i] = Apostrophe =>
            /\ i > 1
            /\ i < Len(s) => IsAlphabetic(s[i + 1])

C5_NoDoubleQuote(ss) == \A i \in 1..Len(ss) : ~Holds(ss[i], DoubleQuote)

C6_AtPunctuation ==
    /\ pc = "latin"
    /\ ti <= Len(tokens)
    /\ Len(tokens[ti]) = 1
    /\ tokens[ti][1] \in PunctuationMarks
    /\ result # <<>>

\* the mark is appended to the last emitted token and no token is created
C6_Step ==
    C6_AtPunctuation =>
        /\ Len(result') = Len(result)
        /\ SubSeq(result', 1, Len(result) - 1) = SubSeq(result, 1, Len(result) - 1)
        /\ result'[Len(result)] = result[Len(result)] \o tokens[ti]
        /\ ti' = ti + 1
        /\ words' = words

\* the example of the specification
C6_Example ==
    (Done /\ text = HelloWorldDone) =>
        words = << TokHelloComma, TokWorldTestDot, TokDoneBang >>

\* C6: in a segment without CJK characters, whenever the current unit is
\* one of the eight punctuation marks and a token of the segment has been
\* emitted, the mark is appended to the last emitted token and no token is
\* created;  Hello, world-test. Done!  gives  Hello,  world-test.  Done!
C6_PunctuationReattached == [][C6_Step]_vars /\ []C6_Example

\* a punctuation mark has just been appended to the one emitted token
C6_Witness ==
    /\ pc = "latin"
    /\ ti = 3
    /\ Len(tokens[2]) = 1
    /\ tokens[2][1] \in PunctuationMarks
    /\ result = << tokens[1] \o tokens[2] >>

(***************************************************************************)
(* C7                                                                      *)
(***************************************************************************)
\* the word loop is at a hyphen, a token of this segment has been emitted
\* and a next unit exists and is not whitespace
C7_AtHyphen ==
    /\ pc = "latin"
    /\ ti < Len(tokens)
    /\ tokens[ti] = << Hyphen >>
    /\ result # <<>>
    /\ ~TrimIsEmpty(tokens[ti + 1])

\* C7: in a segment without CJK characters, at a hyphen with a token already
\* emitted and a next unit that is not whitespace, the last emitted token
\* becomes (last token, hyphen, next unit), the next unit is consumed with
\* the hyphen, and the number of emitted tokens does not change.
C7_HyphenFused ==
    [][C7_AtHyphen =>
          /\ Len(result') = Len(result)
          /\ SubSeq(result', 1, Len(result) - 1) = SubSeq(result, 1, Len(result) - 1)
          /\ result'[Len(result)] =
                 result[Len(result)] \o << Hyphen >> \o tokens[ti + 1]
          /\ ti' = ti + 2
          /\ words' = words]_vars

\* word, hyphen, word has just been fused into the one emitted token
C7_Witness ==
    /\ pc = "latin"
    /\ ti = 4
    /\ tokens[2] = << Hyphen >>
    /\ AnyAlphanumeric(tokens[3])
    /\ result = << tokens[1] \o tokens[2] \o tokens[3] >>

(***************************************************************************)
(* C8                                                                      *)
(***************************************************************************)
\* the word loop is at a unit without alphanumeric character that neither
\* the punctuation rule nor the hyphen rule merges
C8_AtLoneSymbol ==
    /\ pc = "latin"
    /\ ti <= Len(tokens)
    /\ ~AnyAlphanumeric(tokens[ti])
    /\ ~(Len(tokens[ti]) = 1 /\ tokens[ti][1] \in PunctuationMarks /\ result # <<>>)
    /\ ~(/\ tokens[ti] = << Hyphen >>
         /\ result # <<>>
         /\ ti < Len(tokens)
         /\ ~TrimIsEmpty(tokens[ti + 1]))

\* every token emitted for a segment without CJK characters has an
\* alphanumeric character, and the example of the specification
C8_Output ==
    /\ ~has_cjk => \A i \in 1..Len(result) : AnyAlphanumeric(result[i])
    /\ (Done /\ text = ThatIsTheResult) =>
          words = << TokThat, TokIs, TokThe, TokResult >>

\* C8: in a segment without CJK characters, a unit that is merged neither by
\* the punctuation rule nor by the hyphen rule and has no alphanumeric
\* character is never emitted (a hyphen with no emitted token before it or
\* with no non-whitespace unit after it included);  That is - the result
\* gives  That  is  the  result.
C8_LoneSymbolDropped ==
    [][C8_AtLoneSymbol => (result' = result /\ ti' = ti + 1 /\ words' = words)]_vars
        /\ []C8_Output

\* a hyphen at the start of a segment has been passed and nothing emitted
C8_Witness ==
    /\ pc = "latin"
    /\ ti = 2
    /\ Len(tokens) >= 2
    /\ tokens[1] = << Hyphen >>
    /\ result = <<>>

(***************************************************************************)
(* C9                                                                      *)
(***************************************************************************)
\* C9 as stated: in the result of every segment, CJK segments included, no
\* token after a word token is a punctuation mark on its own.
C9_PunctuationNeverAlone ==
    Returning =>
        \A i \in 2..Len(result) :
            (\E j \in 1..(i - 1) : AnyAlphanumeric(result[j]))
                => ~(Len(result[i]) = 1 /\ result[i][1] \in PunctuationMarks)

(***************************************************************************)
(* C10                                                                     *)
(***************************************************************************)
\* a character of U+4E00..U+9FFF or of U+3040..U+30FF
C10_InRanges(c) == (19968 <= c /\ c <= 40959) \/ (12352 <= c /\ c <= 12543)

\* the strings of ss that are not blank, in order
RECURSIVE C10_NonBlank(_)
C10_NonBlank(ss) ==
    IF ss = <<>> THEN <<>>
    ELSE IF \A k \in 1..Len(Head(ss)) : IsWhitespace(Head(ss)[k])
         THEN C10_NonBlank(Tail(ss))
         ELSE << Head(ss) >> \o C10_NonBlank(Tail(ss))

RECURSIVE WordLoop(_, _, _)
WordLoop(units, i, res) ==
    IF i > Len(units) THEN res
    ELSE IF TrimIsEmpty(units[i]) THEN WordLoop(units, i + 1, res)
    ELSE IF Reattaches(units[i], res)
         THEN WordLoop(units, i + 1, PushStr(res, units[i]))
    ELSE IF Fuses(units[i], res, units, i)
         THEN WordLoop(units, i + 2, Hyphenated(res, units[i + 1]))
    ELSE IF Keeps(units[i])
         THEN WordLoop(units, i + 1, Append(res, units[i]))
    ELSE WordLoop(units, i + 1, res)

\* the token lists process_segment(seg) may return: one for each cut when
\* seg has a CJK character, the word loop's otherwise
ProcessSegment(seg) ==
    IF HasCjk(seg)
    THEN { CjkKeep(units) : units \in Cuts(seg) }
    ELSE { WordLoop(SplitWordBounds(seg), 1, <<>>) }

\* t has no quote character and no whitespace
PlainText(t) == \A i \in 1..Len(t) : ~IsQuoteChar(t[i]) /\ ~IsWhitespace(t[i])

\* the token lists split_text(t) may return for a non-empty t without quote
\* character and whitespace: every character goes to the buffer (the default
\* arm), and the final flush hands the buffer to process_segment
SplitPlainText(t) == ProcessSegment(t)

(***************************************************************************)
(* C11                                                                     *)
(***************************************************************************)
\* C11 as stated: every returned token without quote character and without
\* whitespace, tokens of the CJK branch included, is split again into
\* exactly itself.  (Stated for the tokens that hold no CJK character, whose
\* second split does not depend on the cut, and that are not one of the
\* eight punctuation marks, which C9 wants fused.)
C11_EveryTokenIdempotent ==
    Done =>
        \A i \in 1..Len(words) :
            (PlainText(words[i]) /\ ~HasCjk(words[i]) /\ ~IsPunctuation(words[i]))
                => SplitPlainText(words[i]) = { << words[i] >> }

\* C11 as amended: every token without quote character and without
\* whitespace that split_text returns for a span without CJK characters
\* (tokens built by hyphen or punctuation merging included) is split again
\* into exactly itself; a token of the CJK branch need not be: a standalone
\* punctuation or symbol unit such as the ideographic full stop or # is
\* split again into the empty list.  (split_text on a non-empty text without
\* quote character and whitespace returns what process_segment returns for
\* the whole text.)
C11_LatinTokenIdempotent ==
    /\ (Returning /\ ~has_cjk) =>
          \A i \in 1..Len(result) :
              PlainText(result[i]) => SplitPlainText(result[i]) = { << result[i] >> }
    /\ (Done /\ text # <<>> /\ PlainText(text)) => words \in SplitPlainText(text)
    /\ SplitPlainText(<< 12290 >>) = { <<>> }
    /\ SplitPlainText(<< 35 >>) = { <<>> }

\* a token built by a hyphen merge and a punctuation merge is returned
C11_Witness ==
    /\ Returning
    /\ ~has_cjk
    /\ \E i \in 1..Len(result) :
          /\ PlainText(result[i])
          /\ Holds(result[i], Hyphen)
          /\ result[i][Len(result[i])] \in PunctuationMarks
          /\ AnyAlphanumeric(result[i])

(***************************************************************************)
(* C12: what the scanner hands to process_segment                          *)
(***************************************************************************)
\* the index in text of the first character of span k
SpanFrom(k) == spans[k].last - Len(spans[k].seg) + 1

\* the segments handed over, in order
SpanSegs == [ k \in 1..Len(spans) |-> spans[k].seg ]

\* the positions of text that are in a span
Covered ==
    { p \in 1..Len(text) :
        \E k \in 1..Len(spans) : SpanFrom(k) <= p /\ p <= spans[k].last }

\* C12 as stated: the spans handed to tokenization, concatenated in order,
\* are the input exactly, and a span ends only at a quote character or at
\* the end of the input
C12_SpansEqualInput ==
    Done =>
        /\ Concat(SpanSegs) = text
        /\ \A k \in 1..Len(spans) :
              \/ spans[k].last = Len(text)
              \/ IsQuoteChar(text[spans[k].last + 1])

\* C12 as amended: the spans are non-empty contiguous runs of the input, in
\* input order and without overlap; a span ends only before a quote
\* character, before whitespace or at the end of the input; no span holds a
\* double quote, and a span holds whitespace only if it starts right after a
\* quote character; the characters in no span are quote characters and
\* whitespace
C12_SpansCoverAllButBoundaries ==
    /\ \A k \in 1..Len(spans) :
          /\ spans[k].seg # <<>>
          /\ SpanFrom(k) >= 1
          /\ spans[k].seg = SubSeq(text, SpanFrom(k), spans[k].last)
          /\ \/ spans[k].last = Len(text)
             \/ IsQuoteChar(text[spans[k].last + 1])
             \/ IsWhitespace(text[spans[k].last + 1])
          /\ ~Holds(spans[k].seg, DoubleQuote)
          /\ (\E j \in 1..Len(spans[k].seg) : IsWhitespace(spans[k].seg[j]))
                => (SpanFrom(k) > 1 /\ IsQuoteChar(text[SpanFrom(k) - 1]))
    /\ \A k \in 1..(Len(spans) - 1) : spans[k].last < SpanFrom(k + 1)
    /\ Done => \A p \in (1..Len(text)) \ Covered :
                  IsQuoteChar(text[p]) \/ IsWhitespace(text[p])

\* a run with a span that ends at whitespace and a span that holds whitespace
C12_Witness ==
    /\ Done
    /\ \E k \in 1..Len(spans) :
          /\ spans[k].last < Len(text)
          /\ IsWhitespace(text[spans[k].last + 1])
    /\ \E k \in 1..Len(spans) :
          \E j \in 1..Len(spans[k].seg) : IsWhitespace(spans[k].seg[j])

(***************************************************************************)
(* C13: totality                                                           *)
(***************************************************************************)
\* a bound on the steps split_text still takes: the characters left to scan,
\* each worth one call of process_segment, and the units left in the call
StepsLeft ==
    LET perChar == Len(text) + 3
        scanLeft == (Len(text) + 1 - pos) * perChar + Len(text) + 3
        callLeft == IF pc = "extend" THEN 1 ELSE 2 + (Len(tokens) + 1 - ti)
    IN  IF pc = "done" THEN 0
        ELSE IF pc = "scan" THEN scanLeft
        ELSE IF ret = "done" THEN callLeft
        ELSE scanLeft + callLeft

\* every step of split_text uses up the bound
C13_Progress == StepsLeft' < StepsLeft /\ StepsLeft' >= 0

\* result.pop().unwrap() and tokens.next().unwrap() find a value
C13_UnwrapsFindValue == MergeHyphen => (result # <<>> /\ ti + 1 <= Len(tokens))

\* C13: for every input split_text terminates (each step lowers a
\* non-negative bound and a step is possible until it has returned), the
\* unwrap calls of the hyphen merge always find a value, and an empty or
\* whitespace-only input returns the empty sequence
C13_Total ==
    /\ [][C13_Progress]_vars
    /\ [][C13_UnwrapsFindValue]_vars
    /\ [](~Done => ENABLED Next)
    /\ []((Done /\ TrimIsEmpty(text)) => words = <<>>)

\* an input with an unterminated quote and a hyphen has been split
C13_Witness == Done /\ in_quotes /\ Holds(text, Hyphen) /\ Holds(text, Apostrophe)

(***************************************************************************)
(* C14: the apostrophe in quote mode                                       *)
(***************************************************************************)
\* the scanner is at an apostrophe
C14_AtApostrophe == AtChar /\ text[pos] = Apostrophe

\* the character after the one scanned is alphabetic
C14_LetterFollows == pos < Len(text) /\ IsAlphabetic(text[pos + 1])

\* the apostrophe is appended to the buffer and quote mode stays as it is
C14_Kept ==
    /\ current_segment' = Append(current_segment, Apostrophe)
    /\ in_quotes' = in_quotes

\* the apostrophe flips quote mode and is not copied
C14_Boundary ==
    /\ in_quotes' = ~in_quotes
    /\ current_segment' = <<>>

\* C14 as stated: an apostrophe is kept as a contraction only when the
\* buffer is not empty, a letter follows and quote mode is closed; met in
\* quote mode it is always a quote boundary
C14_NoContractionInQuoteMode ==
    [][ /\ (C14_AtApostrophe /\ C14_Kept)
            => (current_segment # <<>> /\ C14_LetterFollows /\ ~in_quotes)
        /\ (C14_AtApostrophe /\ in_quotes) => C14_Boundary ]_vars

\* C14 as amended: an apostrophe is kept as a contraction exactly when the
\* buffer is not empty and a letter follows, in quote mode or not; any other
\* apostrophe is a quote boundary
C14_ContractionIgnoresQuoteMode ==
    [][ C14_AtApostrophe =>
            IF current_segment # <<>> /\ C14_LetterFollows
            THEN C14_Kept
            ELSE C14_Boundary ]_vars

\* quote mode is open and the buffer holds an apostrophe kept in it
C14_Witness ==
    /\ pc = "scan"
    /\ in_quotes
    /\ open_at >= 1
    /\ current_segment # <<>>
    /\ current_segment[Len(current_segment)] = Apostrophe
    /\ Len(current_segment) < pos - open_at

(***************************************************************************)
(* C15: which character closes quote mode                                  *)
(***************************************************************************)
\* the character scanned is a quote boundary: a double quote, or an
\* apostrophe that is not kept as a contraction
C15_AtBoundary ==
    /\ AtChar
    /\ \/ text[pos] = DoubleQuote
       \/ /\ text[pos] = Apostrophe
          /\ ~(current_segment # <<>> /\ C14_LetterFollows)

\* C15 as stated: quote mode is closed only by the quote character that
\* opened it
C15_ClosedBySameQuote ==
    [][ (AtChar /\ in_quotes /\ ~in_quotes') => text[pos] = text[open_at] ]_vars

\* C15 as amended: quote mode, opened by either quote character, is closed
\* by the next quote boundary, whichever of the two characters it is
C15_ClosedByNextBoundary ==
    /\ [](in_quotes => (open_at >= 1 /\ IsQuoteChar(text[open_at])))
    /\ [][ (AtChar /\ in_quotes) => (~in_quotes' <=> C15_AtBoundary) ]_vars

\* a span opened by one quote character and closed by the other is being
\* tokenized
C15_Witness ==
    /\ InCall
    /\ cause = "close"
    /\ text[open_at] # text[pos - 1]

(***************************************************************************)
(* C16: merging stays inside a span                                        *)
(***************************************************************************)
\* the output changes only by words.extend(result)
C16_OnlyAppends ==
    \/ words' = words
    \/ pc = "extend" /\ words' = words \o result

\* a punctuation mark or a hyphen that is the first unit of a span finds no
\* token to attach to: it is dropped and the output is left as it is
C16_FirstUnitNotAttached ==
    (/\ pc = "latin"
     /\ ti = 1
     /\ tokens # <<>>
     /\ (IsPunctuation(tokens[1]) \/ tokens[1] = << Hyphen >>))
        => (result' = <<>> /\ ti' = 2 /\ words' = words)

\* C16: the tokens already returned are never modified or removed, the
\* output only grows by appending the result of a call, a punctuation mark
\* or hyphen at the start of a span is not attached to the previous span's
\* last token, and the result of a call is a function of its segment alone
C16_MergingIsSpanLocal ==
    /\ [][C16_OnlyAppends /\ C16_FirstUnitNotAttached]_vars
    /\ []((pc = "latin" /\ ti = 1) => result = <<>>)
    /\ [](Returning => result \in ProcessSegment(segment))

\* a span that starts with a punctuation mark follows a span that returned a
\* token, and the mark has been passed over
C16_Witness ==
    /\ pc = "latin"
    /\ ti = 2
    /\ IsPunctuation(tokens[1])
    /\ words # <<>>
    /\ result = <<>>

(***************************************************************************)
(* C17: the command line against the config file                           *)
(***************************************************************************)
\* C17 as stated: after the merge every field the user supplied on the
\* command line holds the value supplied, whatever the config file contains
C17_CommandLineWins ==
    merge_pc = "ok" =>
        \A f \in DOMAIN supplied : args[f] = supplied[f]

(***************************************************************************)
(* C18: the rests of the word-timing loop                                  *)
(***************************************************************************)
\* the rest word k got: what its window exceeds seconds_per_word by
RelaxTimeOf(k) == filters[k].end_time - filters[k].start_time - SecondsPerWord

\* the start of the last word before word k that got a rest (0: none)
RECURSIVE LastRestBefore(_)
LastRestBefore(k) ==
    IF k <= 1 THEN 0
    ELSE IF RelaxTimeOf(k - 1) > 0 THEN filters[k - 1].start_time
    ELSE LastRestBefore(k - 1)

\* C18 as stated: a word other than the first gets a rest of rest_duration
\* when it ends a sentence, and also when more than 60 seconds have passed
\* since the last rest
C18_RestEverySixtySeconds ==
    \A k \in 2..Len(filters) :
        (\/ EndsSentence(words[k])
         \/ filters[k].start_time - LastRestBefore(k) > RelaxEvery)
            => RelaxTimeOf(k) = args.rest_duration

(***************************************************************************)
(* C19: content and order                                                  *)
(***************************************************************************)
\* a is b with some of its characters left out
RECURSIVE IsSubsequence(_, _)
IsSubsequence(a, b) ==
    IF a = <<>> THEN TRUE
    ELSE IF b = <<>> THEN FALSE
    ELSE IF Head(a) = Head(b) THEN IsSubsequence(Tail(a), Tail(b))
    ELSE IsSubsequence(a, Tail(b))

\* the letters and digits of s, in order
Alphanumerics(s) == SelectSeq(s, IsAlphanumeric)

\* C19: the tokens returned, concatenated, are the input with some
\* characters left out, and none of the characters left out is a letter or a
\* digit: the letters and digits of the output are those of the input, each
\* once and in input order
C19_ContentAndOrderPreserved ==
    Done =>
        /\ IsSubsequence(Concat(words), text)
        /\ Alphanumerics(Concat(words)) = Alphanumerics(text)

\* a result with a merged token, from an input that lost characters
C19_Witness ==
    /\ Done
    /\ Len(Concat(words)) < Len(text)
    /\ \E i \in 1..Len(words) :
          /\ AnyAlphanumeric(words[i])
          /\ \/ Holds(words[i], Hyphen)
             \/ words[i][Len(words[i])] \in PunctuationMarks

=============================================================================
